---------------------------- MODULE Spec2Model ----------------------------
(***************************************************************************)
(* Model of translate/tools/poconflicts.py: the conflict finder for        *)
(* Gettext PO catalogs (class ConflictOptionParser).                       *)
(*                                                                         *)
(* A text is a sequence of one-character strings.  A unit is identified by *)
(* the pair <<path, index>> of the catalog it was parsed from and its      *)
(* position there.  A dictionary is a function; the iteration order of a   *)
(* dictionary is unspecified in the interpreter the code targets           *)
(* (iteritems), so every loop over a dictionary takes its keys in an       *)
(* arbitrary order.                                                        *)
(***************************************************************************)
EXTENDS Integers, Sequences, FiniteSets, TLC

VARIABLES
    options,        \* the parsed command-line options
    inputfiles,     \* the input paths, in processing order
    nextfile,       \* index of the next input path to process
    textmap,        \* self.textmap: cleaned source -> list of entries
    progress,       \* per processed file: path, outcome, units handled
    warnings,       \* paths named in the warnings issued so far
    conflictmap,    \* self.conflictmap: flattened source -> list of entries
    regrouped,      \* reducedmap as it stands when the plural pass starts
    reducedmap,     \* reducedmap of outputconflicts
    written,        \* cluster keys whose catalog has been written
    outputs,        \* output file name -> units of the catalog written
    othercomments,  \* unit -> comments appended to unit.othercomments
    pc,             \* position in recursiveprocess
    ftext,          \* flatten called on its own: the text
    fjoin,          \* flatten called on its own: the join character
    fresult,        \* flatten called on its own: the result
    fdone           \* flatten called on its own: has it returned

vars == <<options, inputfiles, nextfile, textmap, progress, warnings,
          conflictmap, regrouped, reducedmap, written, outputs,
          othercomments, pc, ftext, fjoin, fresult, fdone>>

runvars == <<options, inputfiles, nextfile, textmap, progress, warnings,
             conflictmap, regrouped, reducedmap, written, outputs,
             othercomments, pc>>

flatvars == <<ftext, fjoin, fresult, fdone>>

(***************************************************************************)
(* Bounds of the model.                                                    *)
(***************************************************************************)
MaxFiles == 2       \* input catalogs per run

MaxFailures == 1    \* input catalogs whose processing raises, per run

MaxLen == 4         \* length of the texts flatten is tried on by itself

(***************************************************************************)
(* Characters: str.isalnum, str.lower, whitespace.                         *)
(***************************************************************************)
UpperCase == <<"A","B","C","D","E","F","G","H","I","J","K","L","M",
               "N","O","P","Q","R","S","T","U","V","W","X","Y","Z">>

LowerCase == <<"a","b","c","d","e","f","g","h","i","j","k","l","m",
               "n","o","p","q","r","s","t","u","v","w","x","y","z">>

Digits == {"0","1","2","3","4","5","6","7","8","9"}

Range(s) == {s[i] : i \in DOMAIN s}

isalnum(c) == c \in Range(UpperCase) \cup Range(LowerCase) \cup Digits

isspace(c) == c \in {" ", "\t", "\n", "\r"}

lowerchar(c) ==
    IF \E i \in DOMAIN UpperCase : UpperCase[i] = c
    THEN LowerCase[CHOOSE i \in DOMAIN UpperCase : UpperCase[i] = c]
    ELSE c

lower(string) == [i \in DOMAIN string |-> lowerchar(string[i])]

\* string.replace(accelerator, "") for a one-character accelerator
replace(string, accelerator) ==
    SelectSeq(string, LAMBDA c : c # accelerator)

RECURSIVE lstrip(_)
lstrip(string) ==
    IF string # <<>> /\ isspace(Head(string))
    THEN lstrip(Tail(string))
    ELSE string

RECURSIVE rstrip(_)
rstrip(string) ==
    IF string # <<>> /\ isspace(string[Len(string)])
    THEN rstrip(SubSeq(string, 1, Len(string) - 1))
    ELSE string

strip(string) == rstrip(lstrip(string))

\* string.rstrip(chars) for a one-character argument
RECURSIVE rstripchar(_, _)
rstripchar(string, char) ==
    IF string # <<>> /\ string[Len(string)] = char
    THEN rstripchar(SubSeq(string, 1, Len(string) - 1), char)
    ELSE string

\* str.split() without arguments: the maximal runs of non-whitespace
RECURSIVE splitfrom(_, _, _)
splitfrom(string, word, words) ==
    IF string = <<>>
    THEN IF word = <<>> THEN words ELSE Append(words, word)
    ELSE IF isspace(Head(string))
         THEN splitfrom(Tail(string), <<>>,
                        IF word = <<>> THEN words ELSE Append(words, word))
         ELSE splitfrom(Tail(string), Append(word, Head(string)), words)

split(string) == splitfrom(string, <<>>, <<>>)

(***************************************************************************)
(* clean: the text that is matched.                                        *)
(***************************************************************************)
RECURSIVE removeaccelerators(_, _)
removeaccelerators(string, accelchars) ==
    IF accelchars = <<>>
    THEN string
    ELSE removeaccelerators(replace(string, Head(accelchars)), Tail(accelchars))

cleanAlwaysLower(string, opts) ==
    strip(removeaccelerators(lower(string), opts.accelchars))

clean(string, opts) ==
    LET cased == IF opts.ignorecase THEN lower(string) ELSE string
    IN  strip(removeaccelerators(cased, opts.accelchars))

(***************************************************************************)
(* flatten: the text reduced to its words.                                 *)
(***************************************************************************)
RECURSIVE flattenloop(_, _, _)
flattenloop(text, flattext, joinchar) ==
    IF text = <<>>
    THEN flattext
    ELSE LET c == Head(text)
             lastisalnum == flattext # <<>> /\ isalnum(flattext[Len(flattext)])
         IN  flattenloop(Tail(text),
                         IF isalnum(c) THEN Append(flattext, c)
                         ELSE IF lastisalnum THEN Append(flattext, joinchar)
                         ELSE flattext,
                         joinchar)

flattenNoRstrip(text, joinchar) == flattenloop(text, <<>>, joinchar)

flatten(text, joinchar) ==
    rstripchar(flattenloop(text, <<>>, joinchar), joinchar)


(***************************************************************************)
(* The catalogs the runs read.  A unit carries what the code reads of it:  *)
(* source, target, isheader(), istranslated(), hasplural().                *)
(***************************************************************************)
Unit(source, target) ==
    [source |-> source, target |-> target,
     header |-> FALSE, translated |-> TRUE, plural |-> FALSE]

HeaderUnit ==
    [source |-> <<>>, target |-> <<"P","O">>,
     header |-> TRUE, translated |-> TRUE, plural |-> FALSE]

UntranslatedUnit(source) ==
    [source |-> source, target |-> <<>>,
     header |-> FALSE, translated |-> FALSE, plural |-> FALSE]

PluralUnit(source, target) ==
    [source |-> source, target |-> target,
     header |-> FALSE, translated |-> TRUE, plural |-> TRUE]

Open == <<"O","p","e","n">>

Opens == <<"O","p","e","n","s">>

OpenBang == <<"O","p","e","n","!">>

OpenQuery == <<"O","p","e","n","?">>

Bang == <<"!">>

AccelOpen == <<"&","o","p","e","n"," ">>

FilesOpens == <<"f","i","l","e","s"," ","O","p","e","n","s">>

Openss == <<"O","p","e","n","s","s">>

Abrir == <<"A","b","r","i","r">>

Abra == <<"A","b","r","a">>

SpaceAbra == <<" ","A","b","r","a">>

Paths == {"A.po", "B.po", "C.po", "D.po", "G.po", "H.po"}

Catalog(path) ==
    CASE path = "A.po" -> <<HeaderUnit, Unit(Open, Abrir), UntranslatedUnit(Opens)>>
      [] path = "B.po" -> <<Unit(Open, Abra), PluralUnit(Opens, Abra)>>
      [] path = "C.po" -> <<Unit(OpenBang, Abrir), Unit(OpenQuery, Abrir), Unit(Bang, Abrir)>>
      [] path = "D.po" -> <<Unit(OpenBang, Abra), Unit(OpenQuery, Abra), Unit(Bang, Abra)>>
      [] path = "G.po" -> <<Unit(Opens, Abrir), Unit(FilesOpens, Abrir),
                            Unit(Open, Abrir), Unit(Openss, Abrir)>>
      [] path = "H.po" -> <<Unit(Opens, Abra), Unit(FilesOpens, SpaceAbra),
                            Unit(AccelOpen, Abra), Unit(Openss, Abra)>>

UnitIds == UNION {{<<p, i>> : i \in DOMAIN Catalog(p)} : p \in Paths}

\* the input lists: up to MaxFiles distinct paths, in any order
InputLists ==
    {l \in UNION {[1..n -> Paths] : n \in 1..MaxFiles} :
        \A i, j \in DOMAIN l : i # j => l[i] # l[j]}

OptionSets ==
    [ignorecase : BOOLEAN, invert : BOOLEAN, accelchars : {<<>>, <<"&">>}]

DefaultOptions == [ignorecase |-> FALSE, invert |-> FALSE, accelchars |-> <<>>]

(***************************************************************************)
(* Dictionaries.                                                           *)
(***************************************************************************)
EmptyMap == [k \in {} |-> <<>>]

put(map, key, value) ==
    [k \in DOMAIN map \cup {key} |-> IF k = key THEN value ELSE map[k]]

pop(map, key) == [k \in DOMAIN map \ {key} |-> map[k]]

\* every order a loop over the keys may take
RECURSIVE Orders(_)
Orders(keys) ==
    IF keys = {}
    THEN {<<>>}
    ELSE UNION {{<<k>> \o rest : rest \in Orders(keys \ {k})} : k \in keys}

(***************************************************************************)
(* processfile: index the units of one catalog.                            *)
(***************************************************************************)
skipped(unit) == unit.header \/ ~unit.translated \/ unit.plural

cleanedpairNoSwap(unit, opts) ==
    IF ~opts.invert
    THEN [source |-> clean(unit.source, opts), target |-> clean(unit.target, opts)]
    ELSE [source |-> clean(unit.target, opts), target |-> clean(unit.target, opts)]

cleanedpair(unit, opts) ==
    IF ~opts.invert
    THEN [source |-> clean(unit.source, opts), target |-> clean(unit.target, opts)]
    ELSE [source |-> clean(unit.target, opts), target |-> clean(unit.source, opts)]

\* self.textmap.setdefault(source, []).append((target, unit, fullinputpath))
indexunit(tm, source, entry) ==
    put(tm, source, IF source \in DOMAIN tm THEN Append(tm[source], entry) ELSE <<entry>>)

\* the loop over inputfile.units, for the first `handled` units of `units`
RECURSIVE processunits(_, _, _, _, _, _)
processunits(tm, units, path, i, handled, opts) ==
    IF i > handled
    THEN tm
    ELSE IF skipped(units[i])
         THEN processunits(tm, units, path, i + 1, handled, opts)
         ELSE LET pair == cleanedpair(units[i], opts)
                  entry == [target |-> pair.target, unit |-> <<path, i>>, filename |-> path]
              IN  processunits(indexunit(tm, pair.source, entry),
                               units, path, i + 1, handled, opts)

failures == Cardinality({i \in DOMAIN progress : progress[i].outcome = "error"})

\* One iteration of the loop over inputfiles in recursiveprocess.  The call of
\* processfile returns, raises an exception after `handled` units went through
\* the loop body (0: also a failure to open or parse), or is interrupted.  A
\* KeyboardInterrupt leaves recursiveprocess: the run ends there, nothing is
\* built or written, and what the interrupted call had indexed is not kept.
ProcessFileReturns ==
    /\ pc = "ingest"
    /\ LET path == inputfiles[nextfile]
           units == Catalog(path)
       IN  /\ textmap' = processunits(textmap, units, path, 1, Len(units), options)
           /\ progress' = Append(progress,
                  [path |-> path, outcome |-> "ok", handled |-> Len(units)])
    /\ nextfile' = nextfile + 1
    /\ pc' = IF nextfile = Len(inputfiles) THEN "build" ELSE "ingest"
    /\ UNCHANGED <<options, inputfiles, warnings, conflictmap, regrouped,
                   reducedmap, written, outputs, othercomments>>

ProcessFileRaises ==
    /\ pc = "ingest"
    /\ failures < MaxFailures
    /\ LET path == inputfiles[nextfile]
           units == Catalog(path)
       IN  \E handled \in 0..(Len(units) - 1) :
               /\ textmap' = processunits(textmap, units, path, 1, handled, options)
               /\ progress' = Append(progress,
                      [path |-> path, outcome |-> "error", handled |-> handled])
               /\ warnings' = Append(warnings, path)
    /\ nextfile' = nextfile + 1
    /\ pc' = IF nextfile = Len(inputfiles) THEN "build" ELSE "ingest"
    /\ UNCHANGED <<options, inputfiles, conflictmap, regrouped,
                   reducedmap, written, outputs, othercomments>>

ProcessFileInterrupted ==
    /\ pc = "ingest"
    /\ pc' = "interrupted"
    /\ UNCHANGED <<options, inputfiles, nextfile, textmap, progress, warnings,
                   conflictmap, regrouped, reducedmap, written, outputs,
                   othercomments>>

(***************************************************************************)
(* buildconflictmap: which strings are conflicting.                        *)
(***************************************************************************)
tooshort(source) == Len(source) <= 1

hasconflictNoUnique(translations) == Len(translations) > 1

hasconflict(translations) ==
    /\ Len(translations) > 1
    /\ Cardinality({translations[i].target : i \in DOMAIN translations}) > 1

\* the body of the loop over self.textmap.iteritems()
buildstep(cm, source, translations) ==
    LET flatsource == flatten(source, " ")
    IN  IF tooshort(flatsource)
        THEN cm
        ELSE IF hasconflict(translations)
             THEN put(cm, flatsource, translations)
             ELSE cm

RECURSIVE buildloop(_, _, _)
buildloop(cm, tm, order) ==
    IF order = <<>>
    THEN cm
    ELSE buildloop(buildstep(cm, Head(order), tm[Head(order)]), tm, Tail(order))

recorded(tm) == {s \in DOMAIN tm : buildstep(EmptyMap, s, tm[s]) # EmptyMap}

RECURSIVE anyorder(_)
anyorder(keys) ==
    IF keys = {}
    THEN <<>>
    ELSE LET k == CHOOSE x \in keys : TRUE
         IN  <<k>> \o anyorder(keys \ {k})

\* The orders the loop may take.  A source the loop body records nothing for
\* leaves the conflict map as it is wherever it comes, so those sources are
\* put first and only the recorded ones are permuted.
buildorders(tm) ==
    {anyorder(DOMAIN tm \ recorded(tm)) \o order : order \in Orders(recorded(tm))}

BuildConflictMap ==
    /\ pc = "build"
    /\ \E order \in buildorders(textmap) :
           conflictmap' = buildloop(EmptyMap, textmap, order)
    /\ pc' = "reduce"
    /\ UNCHANGED <<options, inputfiles, nextfile, textmap, progress, warnings,
                   regrouped, reducedmap, written, outputs, othercomments>>

(***************************************************************************)
(* outputconflicts: regroup by longest word, fold plurals, write.          *)
(***************************************************************************)
\* list.sort(key=len): stable, ascending
RECURSIVE insertbylen(_, _)
insertbylen(sorted, word) ==
    IF sorted = <<>>
    THEN <<word>>
    ELSE IF Len(sorted[Len(sorted)]) <= Len(word)
         THEN Append(sorted, word)
         ELSE Append(insertbylen(SubSeq(sorted, 1, Len(sorted) - 1), word),
                     sorted[Len(sorted)])

RECURSIVE sortbylenfrom(_, _)
sortbylenfrom(sorted, words) ==
    IF words = <<>>
    THEN sorted
    ELSE sortbylenfrom(insertbylen(sorted, Head(words)), Tail(words))

sortbylen(words) == sortbylenfrom(<<>>, words)

RECURSIVE firstlongest(_)
firstlongest(words) ==
    IF Len(words) = 1
    THEN words[1]
    ELSE LET rest == firstlongest(Tail(words))
         IN  IF Len(Head(words)) >= Len(rest) THEN Head(words) ELSE rest

clusterkeyFirst(source) == firstlongest(split(source))

clusterkey(source) ==
    LET words == sortbylen(split(source))
    IN  words[Len(words)]

regroupstepAssign(rm, source, translations) ==
    put(rm, clusterkey(source), translations)

\* reducedmap.setdefault(source, []).extend(translations)
regroupstep(rm, source, translations) ==
    LET key == clusterkey(source)
    IN  put(rm, key, (IF key \in DOMAIN rm THEN rm[key] ELSE <<>>) \o translations)

RECURSIVE regrouploop(_, _, _)
regrouploop(rm, cm, order) ==
    IF order = <<>>
    THEN rm
    ELSE regrouploop(regroupstep(rm, Head(order), cm[Head(order)]), cm, Tail(order))

pluralof(word) == Append(word, "s")

pluralsof(rm) ==
    [word \in {w \in DOMAIN rm : pluralof(w) \in DOMAIN rm} |-> pluralof(word)]

foldstepNoPop(st, word, pluralword) ==
    IF st.raised \/ word \notin DOMAIN st.map \/ pluralword \notin DOMAIN st.map
    THEN [st EXCEPT !.raised = TRUE]
    ELSE [st EXCEPT !.map = put(st.map, word, st.map[word] \o st.map[pluralword])]

\* reducedmap[word].extend(reducedmap.pop(pluralword)); a missing key raises
\* KeyError and ends the loop
foldstep(st, word, pluralword) ==
    IF st.raised \/ word \notin DOMAIN st.map \/ pluralword \notin DOMAIN st.map
    THEN [st EXCEPT !.raised = TRUE]
    ELSE [st EXCEPT !.map = put(pop(st.map, pluralword), word,
                                st.map[word] \o st.map[pluralword])]

RECURSIVE foldloop(_, _, _)
foldloop(st, plurals, order) ==
    IF order = <<>>
    THEN st
    ELSE foldloop(foldstep(st, Head(order), plurals[Head(order)]), plurals, Tail(order))

\* outputconflicts up to the end of the plural pass
ReduceConflicts ==
    /\ pc = "reduce"
    /\ \E order \in Orders(DOMAIN conflictmap) :
         LET rm == regrouploop(EmptyMap, conflictmap, order)
             plurals == pluralsof(rm)
         IN  \E pluralorder \in Orders(DOMAIN plurals) :
               LET st == foldloop([map |-> rm, raised |-> FALSE], plurals, pluralorder)
               IN  /\ regrouped' = rm
                   /\ reducedmap' = st.map
                   /\ pc' = IF st.raised THEN "keyerror"
                            ELSE IF DOMAIN st.map = {} THEN "done" ELSE "write"
    /\ written' = {}
    /\ UNCHANGED <<options, inputfiles, nextfile, textmap, progress, warnings,
                   conflictmap, outputs, othercomments>>

comment(filename) == <<"# (poconflicts) ", filename, "\n">>

outputname(source) == flatten(source, "-") \o <<".">> \o <<"p","o">>

RECURSIVE appendcomments(_, _)
appendcomments(comments, translations) ==
    IF translations = <<>>
    THEN comments
    ELSE LET e == Head(translations)
         IN  appendcomments(
                 [comments EXCEPT ![e.unit] = Append(@, comment(e.filename))],
                 Tail(translations))

\* One iteration of the last loop of outputconflicts: the catalog of one cluster.
WriteConflictFile ==
    /\ pc = "write"
    /\ \E source \in DOMAIN reducedmap \ written :
         LET translations == reducedmap[source]
         IN  /\ othercomments' = appendcomments(othercomments, translations)
             /\ outputs' = put(outputs, outputname(source),
                               [i \in DOMAIN translations |-> translations[i].unit])
             /\ written' = written \cup {source}
             /\ pc' = IF written' = DOMAIN reducedmap THEN "done" ELSE "write"
    /\ UNCHANGED <<options, inputfiles, nextfile, textmap, progress, warnings,
                   conflictmap, regrouped, reducedmap>>

(***************************************************************************)
(* The run: recursiveprocess.                                              *)
(***************************************************************************)
Init ==
    /\ options \in OptionSets
    /\ inputfiles \in InputLists
    /\ nextfile = 1
    /\ textmap = EmptyMap
    /\ progress = <<>>
    /\ warnings = <<>>
    /\ conflictmap = EmptyMap
    /\ regrouped = EmptyMap
    /\ reducedmap = EmptyMap
    /\ written = {}
    /\ outputs = EmptyMap
    /\ othercomments = [u \in UnitIds |-> <<>>]
    /\ pc = "ingest"
    /\ ftext = <<>>
    /\ fjoin = " "
    /\ fresult = <<>>
    /\ fdone = FALSE

Next ==
    \/ ProcessFileReturns /\ UNCHANGED flatvars
    \/ ProcessFileRaises /\ UNCHANGED flatvars
    \/ ProcessFileInterrupted /\ UNCHANGED flatvars
    \/ BuildConflictMap /\ UNCHANGED flatvars
    \/ ReduceConflicts /\ UNCHANGED flatvars
    \/ WriteConflictFile /\ UNCHANGED flatvars

Spec == Init /\ [][Next]_vars

(***************************************************************************)
(* flatten on its own, on every short text and every join character of a   *)
(* small alphabet.                                                         *)
(***************************************************************************)
FlattenAlphabet == {"a", "b", " ", "-"}

FlattenTexts == UNION {[1..n -> FlattenAlphabet] : n \in 0..MaxLen}

InitFlatten ==
    /\ ftext \in FlattenTexts
    /\ fjoin \in FlattenAlphabet
    /\ fresult = <<>>
    /\ fdone = FALSE
    /\ options = DefaultOptions
    /\ inputfiles = <<>>
    /\ nextfile = 1
    /\ textmap = EmptyMap
    /\ progress = <<>>
    /\ warnings = <<>>
    /\ conflictmap = EmptyMap
    /\ regrouped = EmptyMap
    /\ reducedmap = EmptyMap
    /\ written = {}
    /\ outputs = EmptyMap
    /\ othercomments = [u \in UnitIds |-> <<>>]
    /\ pc = "flatten"

CallFlatten ==
    /\ pc = "flatten"
    /\ ~fdone
    /\ fresult' = flatten(ftext, fjoin)
    /\ fdone' = TRUE
    /\ UNCHANGED <<ftext, fjoin>>
    /\ UNCHANGED runvars

NextFlatten == CallFlatten

SpecFlatten == InitFlatten /\ [][NextFlatten]_vars

(***************************************************************************)
(* Properties.                                                             *)
(***************************************************************************)
Built == pc \in {"reduce", "write", "done", "keyerror"}

Reduced == pc \in {"write", "done", "keyerror"}

Folded == pc \in {"write", "done"}

entriesof(map) == UNION {Range(map[k]) : k \in DOMAIN map}

occurrences(map, e) ==
    Cardinality({ki \in UNION {{<<k, i>> : i \in DOMAIN map[k]} : k \in DOMAIN map} :
                    map[ki[1]][ki[2]] = e})

total(map) ==
    Cardinality(UNION {{<<k, i>> : i \in DOMAIN map[k]} : k \in DOMAIN map})

differingtargets(translations) ==
    \E i, j \in DOMAIN translations : translations[i].target # translations[j].target

\* C1: after buildconflictmap, every cleaned source with at least two units of
\* differing cleaned targets whose flattened form is longer than one character
\* is in the conflict map under its flattened form, with all of its entries.
C1_Completeness ==
    Built =>
        \A s \in DOMAIN textmap :
            (differingtargets(textmap[s]) /\ Len(flatten(s, " ")) > 1) =>
                /\ flatten(s, " ") \in DOMAIN conflictmap
                /\ \A i \in DOMAIN textmap[s] :
                       textmap[s][i] \in Range(conflictmap[flatten(s, " ")])

\* C2: every key of the conflict map is longer than one character and its
\* entries have at least two distinct cleaned targets; no unit of a source that
\* is translated identically everywhere, or whose flattened form has at most
\* one character, is in the conflict map.
C2_Soundness ==
    /\ \A k \in DOMAIN conflictmap :
           Len(k) > 1 /\ differingtargets(conflictmap[k])
    /\ \A s \in DOMAIN textmap :
           (~differingtargets(textmap[s]) \/ Len(flatten(s, " ")) <= 1) =>
               \A i \in DOMAIN textmap[s] : textmap[s][i] \notin entriesof(conflictmap)

C2_Witness ==
    /\ pc = "done"
    /\ conflictmap # EmptyMap
    /\ \E s \in DOMAIN textmap :
           differingtargets(textmap[s]) /\ Len(flatten(s, " ")) <= 1

OpenAbrirAbraRun ==
    /\ options = DefaultOptions
    /\ inputfiles \in {<<"A.po", "B.po">>, <<"B.po", "A.po">>}
    /\ pc = "done"
    /\ \A i \in DOMAIN progress : progress[i].outcome = "ok"

bothunitstagged(name) ==
    /\ DOMAIN outputs = {name}
    /\ Len(outputs[name]) = 2
    /\ Range(outputs[name]) = {<<"A.po", 2>>, <<"B.po", 1>>}
    /\ othercomments[<<"A.po", 2>>] = << <<"# (poconflicts) ", "A.po", "\n">> >>
    /\ othercomments[<<"B.po", 1>>] = << <<"# (poconflicts) ", "B.po", "\n">> >>

\* C3 as stated: with default options, catalogs A (Open -> Abrir) and B
\* (Open -> Abra) give exactly one output catalog, named open.po, holding both
\* units, each tagged with its own origin file.
C3_NamedOpenLowercase ==
    OpenAbrirAbraRun => bothunitstagged(<<"o","p","e","n",".","p","o">>)

\* C3 amended: with default options, catalogs A (Open -> Abrir) and B
\* (Open -> Abra) give exactly one output catalog, named Open.po (the case of
\* the source is kept), holding both units, each tagged with its own origin file.
C3_NamedOpenAsWritten ==
    OpenAbrirAbraRun => bothunitstagged(<<"O","p","e","n",".","p","o">>)

C3_Witness == OpenAbrirAbraRun /\ outputs # EmptyMap

\* C4: for every cluster key w with both w and w+"s" keys before folding, the
\* folding completes without error, w+"s" is no key afterwards and the list of
\* w is the original list of w followed by the original list of w+"s".
C4_PluralFolding ==
    Reduced =>
        /\ pc # "keyerror"
        /\ \A w \in DOMAIN regrouped :
               Append(w, "s") \in DOMAIN regrouped =>
                   /\ Append(w, "s") \notin DOMAIN reducedmap
                   /\ w \in DOMAIN reducedmap
                   /\ reducedmap[w] = regrouped[w] \o regrouped[Append(w, "s")]

\* C5: after regrouping and plural folding, every entry of the conflict map
\* occurs exactly once across the lists of the reduced map, nothing else occurs
\* there, and the total numbers of entries agree.
C5_EntryConservation ==
    Folded =>
        /\ \A e \in entriesof(conflictmap) : occurrences(reducedmap, e) = 1
        /\ entriesof(reducedmap) \subseteq entriesof(conflictmap)
        /\ total(reducedmap) = total(conflictmap)

C5_Witness ==
    /\ Folded
    /\ DOMAIN regrouped # DOMAIN reducedmap
    /\ Cardinality(DOMAIN regrouped) < Cardinality(DOMAIN conflictmap)

\* C6: when the processing of an input file fails, a warning naming it is
\* issued and the index holds no entry that comes from that file.
C6_FailureIsolation ==
    \A n \in DOMAIN progress :
        progress[n].outcome = "error" =>
            /\ progress[n].path \in Range(warnings)
            /\ \A s \in DOMAIN textmap : \A i \in DOMAIN textmap[s] :
                   textmap[s][i].filename # progress[n].path

\* C7: every unit in an output catalog was read from an input catalog, is in
\* exactly one output catalog, once, and has had exactly one comment appended,
\* "# (poconflicts) <path>" with the path of the catalog it was read from.
C7_Provenance ==
    \A name \in DOMAIN outputs : \A i \in DOMAIN outputs[name] :
        LET unit == outputs[name][i]
        IN  /\ \E n \in DOMAIN progress : progress[n].path = unit[1]
            /\ unit[2] \in DOMAIN Catalog(unit[1])
            /\ occurrences(outputs, unit) = 1
            /\ othercomments[unit] = << <<"# (poconflicts) ", unit[1], "\n">> >>

C7_Witness ==
    /\ pc = "done"
    /\ DOMAIN regrouped # DOMAIN reducedmap
    /\ \E name \in DOMAIN outputs : \E i, j \in DOMAIN outputs[name] :
           outputs[name][i][1] # outputs[name][j][1]

swapped(unit) == [unit EXCEPT !.source = unit.target, !.target = unit.source]

swappedcatalog(path) == [i \in DOMAIN Catalog(path) |-> swapped(Catalog(path)[i])]

\* the index of the run that reads the swapped catalogs without the invert flag
RECURSIVE swappedindex(_)
swappedindex(n) ==
    IF n = 0
    THEN EmptyMap
    ELSE processunits(swappedindex(n - 1), swappedcatalog(progress[n].path),
                      progress[n].path, 1, progress[n].handled,
                      [options EXCEPT !.invert = FALSE])

sameindexandconflicts(index) ==
    /\ textmap = index
    /\ Built => \E order \in buildorders(index) :
                    conflictmap = buildloop(EmptyMap, index, order)

\* C8: the index and the conflict map of a run with the invert flag are those
\* of the run without it on the same catalogs with the source and target of
\* each unit swapped beforehand.
C8_InvertEquivalence ==
    options.invert => sameindexandconflicts(swappedindex(Len(progress)))

C8_Witness == options.invert /\ pc = "done" /\ conflictmap # EmptyMap

flatshape(text, joinchar) ==
    /\ text # <<>> => text[1] # joinchar /\ text[Len(text)] # joinchar
    /\ \A i \in 1..(Len(text) - 1) : ~(text[i] = joinchar /\ text[i + 1] = joinchar)

\* C9 as stated: for every text and every join character, alphanumeric ones
\* included, the result of flatten neither begins nor ends with the join
\* character and has no two of them in a row.
C9_FlattenShapeAnyJoin == fdone => flatshape(fresult, fjoin)

\* C9 amended: for every text and every join character that is not
\* alphanumeric, the result of flatten neither begins nor ends with the join
\* character and has no two of them in a row.
C9_FlattenShapeOtherJoin == (fdone /\ ~isalnum(fjoin)) => flatshape(fresult, fjoin)

C9_Witness ==
    /\ fdone
    /\ ~isalnum(fjoin)
    /\ fjoin \in Range(fresult)
    /\ Len(fresult) < Len(ftext)

longest(word, words) ==
    /\ word \in Range(words)
    /\ \A j \in DOMAIN words : Len(words[j]) <= Len(word)

\* the cluster the entries of a conflicting source went to
clusterof(k) ==
    CHOOSE w \in DOMAIN regrouped :
        \A i \in DOMAIN conflictmap[k] : conflictmap[k][i] \in Range(regrouped[w])

clustered(k) ==
    \E w \in DOMAIN regrouped :
        \A i \in DOMAIN conflictmap[k] : conflictmap[k][i] \in Range(regrouped[w])

\* C10 as stated: the cluster key of a conflicting source is a longest one of
\* its words, and among several longest words the first in left-to-right order.
C10_ClusterKeyFirstLongest ==
    Reduced =>
        \A k \in DOMAIN conflictmap :
            /\ clustered(k)
            /\ longest(clusterof(k), split(k))
            /\ LET words == split(k)
                   first == CHOOSE i \in DOMAIN words :
                                /\ Len(words[i]) = Len(clusterof(k))
                                /\ \A j \in 1..(i - 1) : Len(words[j]) < Len(words[i])
               IN  words[first] = clusterof(k)

\* C10 amended: the cluster key of a conflicting source is a longest one of
\* its words, and among several longest words the last in left-to-right order.
C10_ClusterKeyLastLongest ==
    Reduced =>
        \A k \in DOMAIN conflictmap :
            /\ clustered(k)
            /\ longest(clusterof(k), split(k))
            /\ LET words == split(k)
                   last == CHOOSE i \in DOMAIN words :
                               /\ Len(words[i]) = Len(clusterof(k))
                               /\ \A j \in (i + 1)..Len(words) : Len(words[j]) < Len(words[i])
               IN  words[last] = clusterof(k)

C10_Witness ==
    /\ Reduced
    /\ \E k \in DOMAIN conflictmap :
           \E i, j \in DOMAIN split(k) :
               /\ i < j
               /\ split(k)[i] # split(k)[j]
               /\ Len(split(k)[i]) = Len(split(k)[j])
               /\ longest(split(k)[i], split(k))

=============================================================================
